---- MODULE Spec2Model ----
(***************************************************************************)
(* Model of the MeditationTimer component                                  *)
(* (src/components/meditation-timer.tsx, lines 1-568).                     *)
(*                                                                         *)
(* The state is the component's React state, the 'meditationTimer' key of  *)
(* localStorage, the wall clock read by Date.now() and the interval the    *)
(* countdown effect has registered.  A click handler, the re-render it     *)
(* causes and the effects of that re-render are one step: React flushes    *)
(* the effects of a discrete event synchronously.  The state updates of    *)
(* an interval callback are rendered at once too, but the effect cleanup   *)
(* that follows them (clearInterval) is scheduled separately, and so is    *)
(* the effect that follows the updates made by the mount effect: that is   *)
(* the step FlushPassiveEffects.  Under Spec every write to the store      *)
(* succeeds, the browser has no Screen Wake Lock API and delivers no       *)
(* animation frame (the page is not shown).  SpecWriteFails adds a store   *)
(* whose setItem can throw, SpecWakeLock a browser with the Wake Lock API, *)
(* SpecFlash the animation frames of the completion flash, and SpecFair is *)
(* Spec with the fairness of the clock, the interval and React's effects.  *)
(***************************************************************************)
EXTENDS Integers, Sequences, FiniteSets, TLC

\* ---------------------------------------------------------------- bounds
\* Date.now() at the first page load, in milliseconds.
StartNow == 1000
\* The clock is observed every TimeStep milliseconds.
TimeStep == 500
\* The clock is followed for Horizon milliseconds after StartNow.
Horizon == 7000
\* playNotificationSound is followed for at most MaxNotify calls.
MaxNotify == 3
\* Wake-lock requests and sentinels that no effect instance refers to any more
\* are followed up to MaxOrphans of them.
MaxOrphans == 2

\* ------------------------------------------------------------- constants
\* PRESETS[i].seconds, for i = 0..3 (the sequence is indexed from 1).
PRESETS == <<5, 10 * 60, 15 * 60, 30 * 60>>

\* The values of MODES: the modes a mode button can select.
MODES == {"clock", "timer"}

\* Milliseconds per second: the factor of Date.now() + remainingSeconds * 1000
\* and the divisor of Math.ceil((targetTimestamp - now) / 1000).
MsPerSecond == 1000

\* The null of useState<number | null>(null): no timestamp is negative.
Null == -1

\* The localStorage key 'meditationTimer' is absent (getItem returns null).
NoItem == <<>>

\* A string under the key that is not JSON: JSON.parse throws on it.  The
\* component never writes one; something else that shares the store can.
Malformed == <<0>>

\* The flash effect returns early once flashCount >= 10 (line 365), and the
\* overlay is rendered while flashCount < 10 (line 404).
FlashCountLimit == 10

\* animate asks for another frame after a cycle if flashCount < 4 (line 381).
FlashLastCycle == 4

\* No interval is registered by the countdown effect.
NoInterval == [active |-> FALSE, targetTimestamp |-> Null, soundEnabled |-> FALSE]

VARIABLES
    now,               \* Date.now()
    mode,              \* useState<TimerMode>('clock')
    selectedPreset,    \* index into PRESETS, 0-based as in the source
    totalSeconds,
    remainingSeconds,
    isRunning,
    isCompleted,
    targetTimestamp,
    soundEnabled,
    localStorage,      \* NoItem, or <<s>> with s the string stored under the key
    interval,          \* the interval of the countdown effect and its closure
    notifyCalls,       \* calls of playNotificationSound
    soundPlays,        \* calls of audioRef.current.play()
    lastOp,            \* the event dispatched last (history)
    mounted,           \* the component is in the tree (it rendered without error)
    storageFull,       \* localStorage.setItem throws QuotaExceededError
    wakeLockApi,       \* 'wakeLock' in navigator && 'request' in navigator.wakeLock
    wakeLock,          \* the wake lock effect: its dependencies, request and sentinel
    flashCount,
    flashIntensity,    \* 0, or 1 for any positive intensity
    flash              \* the flash effect: its dependencies, frame request and startTime

vars == <<now, mode, selectedPreset, totalSeconds, remainingSeconds, isRunning,
          isCompleted, targetTimestamp, soundEnabled, localStorage, interval,
          notifyCalls, soundPlays, lastOp, mounted, storageFull,
          wakeLockApi, wakeLock, flashCount, flashIntensity, flash>>

\* The session: what the countdown engine owns, with its persisted slot.
session == <<selectedPreset, totalSeconds, remainingSeconds, isRunning,
             isCompleted, targetTimestamp, localStorage>>

\* --------------------------------------------------------- pure functions
\* A rounding that is wrong on whole multiples of d: Math.floor(x / d) + 1.
MathFloorPlusOne(x, d) == (x \div d) + 1

\* Math.ceil(x / d) for integers x and d > 0 (\div rounds towards minus infinity).
MathCeilDiv(x, d) == -((-x) \div d)

\* JavaScript truthiness of a number | null: null and 0 are falsy.
Truthy(t) == t # Null /\ t # 0

\* JSON.stringify of the three-field object the handlers store: the string is
\* modelled as the sequence of its three values in the order they are written.
JSONstringify(obj) == <<obj.targetTimestamp, obj.selectedPreset, obj.totalSeconds>>

\* JSON.parse succeeds on the strings JSONstringify produces.
JSONparses(s) == Len(s) = 3

\* JSON.parse followed by the destructuring of line 175.
JSONparse(s) == [targetTimestamp |-> s[1], selectedPreset |-> s[2], totalSeconds |-> s[3]]

\* A countdown effect without the early return of line 270: an interval is
\* registered whatever the state.
CountdownEffectNoGuard(r, t, s) ==
    [active |-> TRUE, targetTimestamp |-> t, soundEnabled |-> s]

\* The countdown effect (lines 269-289) run on state (r, t, s): it returns
\* early unless isRunning and targetTimestamp are truthy, else it registers
\* an interval whose callback closes over targetTimestamp and
\* playNotificationSound (which closes over soundEnabled).
CountdownEffect(r, t, s) ==
    IF ~r \/ ~Truthy(t) THEN NoInterval
    ELSE [active |-> TRUE, targetTimestamp |-> t, soundEnabled |-> s]

\* Math.pow(Math.sin(elapsed * Math.PI * 4) * 0.5 + 0.5, 4) (line 372) for
\* elapsed in milliseconds, as zero or positive (1): the sine is -1, and the
\* intensity 0, at 3/8 of a second and every half second after it.
FlashIntensityAt(elapsed) ==
    IF elapsed % (MsPerSecond \div 2) = (3 * MsPerSecond) \div 8 THEN 0 ELSE 1

\* The flash effect as it runs on mount (lines 364-396), on the initial
\* state isCompleted = false, flashCount = 0: it returns at line 365.
FlashOnMount ==
    [isCompleted |-> FALSE, flashCount |-> 0, scheduled |-> FALSE, startTime |-> Null]

\* The cleanup of the flash effect (lines 391-395): cancelAnimationFrame.
FlashCleanup(f) == [f EXCEPT !.scheduled = FALSE]

\* The flash effect (lines 364-396) after a render with isCompleted = c and
\* flashCount = k at time t: it re-runs when a dependency of [isCompleted,
\* flashCount] changed; cleanup first, then, unless line 365 returns, startTime
\* = Date.now() and a request for an animation frame.
FlashEffect(f, c, k, t) ==
    IF <<c, k>> = <<f.isCompleted, f.flashCount>> THEN f
    ELSE IF ~c \/ k >= FlashCountLimit
    THEN [isCompleted |-> c, flashCount |-> k, scheduled |-> FALSE, startTime |-> Null]
    ELSE [isCompleted |-> c, flashCount |-> k, scheduled |-> TRUE, startTime |-> t]

\* const shouldKeepAwake = mode === 'clock' || isRunning (line 314).
shouldKeepAwake(m, r) == m = "clock" \/ r

\* The wake lock effect as it runs on mount (lines 312-349), on the initial
\* state mode = 'clock', isRunning = false: with the Wake Lock API present
\* requestWakeLock awaits navigator.wakeLock.request('screen') (requested);
\* the effect's variable wakeLock is null (sentinel is FALSE) until the
\* request resolves.  orphans counts the requests in flight of instances of
\* the effect that were cleaned up, loose the sentinels such requests resolved
\* to: the page holds them and no cleanup refers to them.
WakeLockOnMount(api) ==
    [mode |-> "clock", isRunning |-> FALSE,
     requested |-> api /\ shouldKeepAwake("clock", FALSE),
     sentinel |-> FALSE, orphans |-> 0, loose |-> 0]

\* The cleanup of the wake lock effect (lines 341-348): a sentinel the
\* variable holds is released; a request still in flight is not cancelled.
WakeLockCleanup(w) ==
    [w EXCEPT !.requested = FALSE,
              !.sentinel = FALSE,
              !.orphans = IF w.requested THEN @ + 1 ELSE @]

\* The wake lock effect (lines 312-349) after a render with mode = m and
\* isRunning = r: it re-runs when a dependency of [mode, isRunning] changed,
\* cleanup of the old instance first, then a request if shouldKeepAwake.
WakeLockEffect(w, m, r, api) ==
    IF <<m, r>> = <<w.mode, w.isRunning>> THEN w
    ELSE [WakeLockCleanup(w) EXCEPT !.mode = m,
                                    !.isRunning = r,
                                    !.requested = api /\ shouldKeepAwake(m, r)]

\* ------------------------------------------------------------------ Init
\* First page load, with nothing stored or with a string that is not JSON
\* under the key: the initial state of lines 41-59; the mount effect finds no
\* saved state, or catches the parse error, and sets nothing.
Init ==
    /\ now = StartNow
    /\ mode = "clock"
    /\ selectedPreset = 0
    /\ totalSeconds = PRESETS[1]
    /\ remainingSeconds = PRESETS[1]
    /\ isRunning = FALSE
    /\ isCompleted = FALSE
    /\ targetTimestamp = Null
    /\ soundEnabled = FALSE
    /\ localStorage \in {NoItem, <<Malformed>>}
    /\ interval = NoInterval
    /\ notifyCalls = 0
    /\ soundPlays = 0
    /\ lastOp = "load"
    /\ mounted = TRUE
    /\ storageFull = FALSE
    /\ wakeLockApi = FALSE
    /\ wakeLock = WakeLockOnMount(wakeLockApi)
    /\ flashCount = 0
    /\ flashIntensity = 0
    /\ flash = FlashOnMount

\* --------------------------------------------------------------- actions
\* The wake lock effect of a render with mode = m and isRunning = r.
WakeLockEffectStep(m, r) ==
    /\ wakeLock' = WakeLockEffect(wakeLock, m, r, wakeLockApi)
    /\ wakeLock'.orphans + wakeLock'.loose <= MaxOrphans
    /\ UNCHANGED wakeLockApi

\* The wall clock advances.
Advance ==
    /\ now + TimeStep <= StartNow + Horizon
    /\ now' = now + TimeStep
    /\ UNCHANGED <<mode, selectedPreset, totalSeconds, remainingSeconds, isRunning,
                   isCompleted, targetTimestamp, soundEnabled, localStorage,
                   interval, notifyCalls, soundPlays>>
    /\ lastOp' = "advance"
    /\ UNCHANGED <<mounted, storageFull, wakeLockApi, wakeLock>>
    /\ UNCHANGED <<flashCount, flashIntensity, flash>>

\* A mode switch that stops the countdown.
ModeClickStops(m) ==
    /\ mounted
    /\ mode' = m
    /\ lastOp' = "modeClick"
    /\ isRunning' = FALSE
    /\ targetTimestamp' = Null
    /\ interval' = NoInterval
    /\ WakeLockEffectStep(m, FALSE)
    /\ flash' = FlashEffect(flash, isCompleted, flashCount, now)
    /\ UNCHANGED <<flashCount, flashIntensity>>
    /\ UNCHANGED <<now, selectedPreset, totalSeconds, remainingSeconds,
                   isCompleted, soundEnabled, localStorage, notifyCalls, soundPlays,
                   mounted, storageFull>>

\* A click on a mode button: setMode(m).  Neither mode nor anything it
\* changes is a dependency of the countdown effect.
ModeClick(m) ==
    /\ mounted
    /\ mode' = m
    /\ lastOp' = "modeClick"
    /\ interval' = IF m = mode THEN interval
                   ELSE CountdownEffect(isRunning, targetTimestamp, soundEnabled)
    /\ IF m = mode THEN UNCHANGED <<wakeLockApi, wakeLock, flash>>
       ELSE /\ WakeLockEffectStep(m, isRunning)
            /\ flash' = FlashEffect(flash, isCompleted, flashCount, now)
    /\ UNCHANGED <<flashCount, flashIntensity>>
    /\ UNCHANGED <<now, selectedPreset, totalSeconds, remainingSeconds, isRunning,
                   isCompleted, targetTimestamp, soundEnabled, localStorage,
                   notifyCalls, soundPlays, mounted, storageFull>>

\* A click on the sound button (rendered in timer mode): toggleSound.
\* playNotificationSound changes identity, so the countdown effect re-runs.
SoundClick ==
    /\ mounted
    /\ mode = "timer"
    /\ soundEnabled' = ~soundEnabled
    /\ lastOp' = "soundClick"
    /\ interval' = CountdownEffect(isRunning, targetTimestamp, soundEnabled')
    /\ WakeLockEffectStep(mode, isRunning)
    /\ flash' = FlashEffect(flash, isCompleted, flashCount, now)
    /\ UNCHANGED <<flashCount, flashIntensity>>
    /\ UNCHANGED <<now, mode, selectedPreset, totalSeconds, remainingSeconds,
                   isRunning, isCompleted, targetTimestamp, localStorage,
                   notifyCalls, soundPlays, mounted, storageFull>>

\* Preset buttons that are never disabled.
PresetNeverDisabled == FALSE

\* The preset buttons carry disabled={isRunning} (line 471).
PresetDisabled == isRunning

\* A preset selection that forgets setTotalSeconds.
handlePresetSelectKeepsTotal(index) ==
    /\ selectedPreset' = index
    /\ remainingSeconds' = PRESETS[index + 1]
    /\ isRunning' = FALSE
    /\ isCompleted' = FALSE
    /\ flashCount' = 0
    /\ flashIntensity' = 0
    /\ UNCHANGED <<totalSeconds, targetTimestamp, localStorage>>

\* A preset selection that forgets setIsCompleted(false).
handlePresetSelectKeepsCompleted(index) ==
    /\ selectedPreset' = index
    /\ totalSeconds' = PRESETS[index + 1]
    /\ remainingSeconds' = PRESETS[index + 1]
    /\ isRunning' = FALSE
    /\ flashCount' = 0
    /\ flashIntensity' = 0
    /\ UNCHANGED <<isCompleted, targetTimestamp, localStorage>>

\* handlePresetSelect(index), lines 209-218: neither targetTimestamp nor
\* localStorage is touched.
handlePresetSelect(index) ==
    /\ selectedPreset' = index
    /\ totalSeconds' = PRESETS[index + 1]
    /\ remainingSeconds' = PRESETS[index + 1]
    /\ isRunning' = FALSE
    /\ isCompleted' = FALSE
    /\ flashCount' = 0
    /\ flashIntensity' = 0
    /\ UNCHANGED <<targetTimestamp, localStorage>>

\* A click on preset button index (rendered in timer mode); a click on a
\* disabled button dispatches nothing.
PresetClick(index) ==
    /\ mounted
    /\ mode = "timer"
    /\ lastOp' = "presetClick"
    /\ IF PresetDisabled
       THEN UNCHANGED <<session, interval, wakeLockApi, wakeLock,
                        flashCount, flashIntensity, flash>>
       ELSE /\ handlePresetSelect(index)
            /\ interval' = CountdownEffect(isRunning', targetTimestamp', soundEnabled)
            /\ WakeLockEffectStep(mode, isRunning')
            /\ flash' = FlashEffect(flash, isCompleted', flashCount', now)
    /\ UNCHANGED <<now, mode, soundEnabled, notifyCalls, soundPlays,
                   mounted, storageFull>>

\* A reset that forgets setTargetTimestamp(null).
handleResetKeepsTarget ==
    /\ remainingSeconds' = totalSeconds
    /\ isRunning' = FALSE
    /\ isCompleted' = FALSE
    /\ flashCount' = 0
    /\ flashIntensity' = 0
    /\ localStorage' = NoItem
    /\ UNCHANGED <<selectedPreset, totalSeconds, targetTimestamp>>

\* A reset that forgets localStorage.removeItem.
handleResetKeepsItem ==
    /\ remainingSeconds' = totalSeconds
    /\ isRunning' = FALSE
    /\ isCompleted' = FALSE
    /\ flashCount' = 0
    /\ flashIntensity' = 0
    /\ targetTimestamp' = Null
    /\ UNCHANGED <<selectedPreset, totalSeconds, localStorage>>

\* handleReset, lines 255-263.
handleReset ==
    /\ remainingSeconds' = totalSeconds
    /\ isRunning' = FALSE
    /\ isCompleted' = FALSE
    /\ flashCount' = 0
    /\ flashIntensity' = 0
    /\ targetTimestamp' = Null
    /\ localStorage' = NoItem
    /\ UNCHANGED <<selectedPreset, totalSeconds>>

\* A start that counts from the preset's duration, also on resume.
StartTargetFromTotal == now + totalSeconds * MsPerSecond

\* A start that adds seconds to milliseconds.
StartTargetNoScale == now + remainingSeconds

\* const target = Date.now() + remainingSeconds * 1000 (line 231).
StartTarget == now + remainingSeconds * MsPerSecond

\* The value setRemainingSeconds receives when the timer is paused: the pause
\* branch (lines 238-246) never calls it, so the value of the last render stays.
PauseRemaining == remainingSeconds

\* A start/pause button that does not look at isCompleted.
StartPauseNeverResets == FALSE

\* if (isCompleted) (line 224): the click resets instead of toggling.
StartPauseResets == isCompleted

\* handleStartPause, lines 223-250.  The updater of setIsRunning runs on the
\* current isRunning; remainingSeconds, selectedPreset and totalSeconds are
\* those of the render the click happened in.
handleStartPause ==
    IF StartPauseResets
    THEN handleReset
    ELSE IF ~isRunning
    THEN \* starting
         /\ isRunning' = TRUE
         /\ targetTimestamp' = StartTarget
         /\ localStorage' = <<JSONstringify([targetTimestamp |-> StartTarget,
                                              selectedPreset |-> selectedPreset,
                                              totalSeconds |-> totalSeconds])>>
         /\ UNCHANGED <<selectedPreset, totalSeconds, remainingSeconds, isCompleted,
                        flashCount, flashIntensity>>
    ELSE \* pausing
         /\ isRunning' = FALSE
         /\ targetTimestamp' = Null
         /\ remainingSeconds' = PauseRemaining
         /\ localStorage' = <<JSONstringify([targetTimestamp |-> Null,
                                              selectedPreset |-> selectedPreset,
                                              totalSeconds |-> totalSeconds])>>
         /\ UNCHANGED <<selectedPreset, totalSeconds, isCompleted,
                        flashCount, flashIntensity>>

\* localStorage.setItem (lines 233 and 241) throws when the store takes no
\* more data.  Nothing catches it: it is thrown inside the updater of
\* setIsRunning, that is inside the render of the component.
handleStartPauseThrows == ~StartPauseResets /\ storageFull

\* A click on the start/pause/restart button (rendered in timer mode).  When
\* the updater throws, the render fails and React, finding no error boundary
\* in the component, unmounts it: its effects are cleaned up (clearInterval)
\* and its state is gone (the variables keep the values of the last render,
\* which nothing reads until a reload).
StartPauseClick ==
    /\ mounted
    /\ mode = "timer"
    /\ lastOp' = "startPauseClick"
    /\ IF handleStartPauseThrows
       THEN /\ mounted' = FALSE
            /\ interval' = NoInterval
            /\ wakeLock' = WakeLockCleanup(wakeLock)
            /\ flash' = FlashCleanup(flash)
            /\ UNCHANGED <<session, wakeLockApi, flashCount, flashIntensity>>
       ELSE /\ handleStartPause
            /\ interval' = CountdownEffect(isRunning', targetTimestamp', soundEnabled)
            /\ WakeLockEffectStep(mode, isRunning')
            /\ flash' = FlashEffect(flash, isCompleted', flashCount', now)
            /\ UNCHANGED mounted
    /\ UNCHANGED <<now, mode, soundEnabled, notifyCalls, soundPlays, storageFull>>

\* The reset button carries
\* disabled={!isRunning && !isCompleted && remainingSeconds === totalSeconds}.
ResetDisabled == ~isRunning /\ ~isCompleted /\ remainingSeconds = totalSeconds

\* A click on the reset button (rendered in timer mode).
ResetClick ==
    /\ mounted
    /\ mode = "timer"
    /\ lastOp' = "resetClick"
    /\ IF ResetDisabled
       THEN UNCHANGED <<session, interval, wakeLockApi, wakeLock,
                        flashCount, flashIntensity, flash>>
       ELSE /\ handleReset
            /\ interval' = CountdownEffect(isRunning', targetTimestamp', soundEnabled)
            /\ WakeLockEffectStep(mode, isRunning')
            /\ flash' = FlashEffect(flash, isCompleted', flashCount', now)
    /\ UNCHANGED <<now, mode, soundEnabled, notifyCalls, soundPlays,
                   mounted, storageFull>>

\* A countdown by decrementing a counter on each tick.
TickDecrement == remainingSeconds - 1

\* const remaining = Math.ceil((targetTimestamp - now) / 1000) (line 274), on
\* the targetTimestamp the callback closes over.
TickRemaining == MathCeilDiv(interval.targetTimestamp - now, MsPerSecond)

\* A completion test that never fires.
TickCompletesNever == FALSE

\* A completion test that fires during the last second.
TickCompletesEarly == TickRemaining <= 1

\* A completion test that misses remaining = 0.
TickCompletesStrict == TickRemaining < 0

\* if (remaining <= 0) (line 276).
TickCompletes == TickRemaining <= 0

\* playNotificationSound (lines 96-103) as the callback closes over it:
\* audioRef.current is set on mount, so play() is called iff soundEnabled.
playNotificationSound ==
    /\ notifyCalls' = notifyCalls + 1
    /\ soundPlays' = IF interval.soundEnabled THEN soundPlays + 1 ELSE soundPlays

\* The interval callback of the countdown effect, lines 272-286.  It runs
\* while the interval is registered; the cleanup that clears the interval
\* after a completion is FlushPassiveEffects.
Tick ==
    /\ mounted
    /\ interval.active
    /\ lastOp' = "tick"
    /\ IF TickCompletes
       THEN /\ notifyCalls < MaxNotify
            /\ remainingSeconds' = 0
            /\ isRunning' = FALSE
            /\ isCompleted' = TRUE
            /\ targetTimestamp' = Null
            /\ localStorage' = NoItem
            /\ playNotificationSound
       ELSE /\ remainingSeconds' = TickRemaining
            /\ UNCHANGED <<isRunning, isCompleted, targetTimestamp, localStorage,
                           notifyCalls, soundPlays>>
    /\ UNCHANGED <<now, mode, selectedPreset, totalSeconds, soundEnabled, interval,
                   mounted, storageFull, wakeLockApi, wakeLock,
                   flashCount, flashIntensity, flash>>

\* The cleanup and re-run of the countdown effect (lines 269-289) and of the
\* wake lock effect (lines 312-349) after a render that was not caused by a
\* click: clearInterval of the old interval, and a new one if the timer runs;
\* release of the sentinel, and a new request if the screen is to stay awake;
\* and likewise of the flash effect (lines 364-396).
FlushPassiveEffects ==
    /\ mounted
    /\ \/ interval # CountdownEffect(isRunning, targetTimestamp, soundEnabled)
       \/ wakeLock # WakeLockEffect(wakeLock, mode, isRunning, wakeLockApi)
       \/ flash # FlashEffect(flash, isCompleted, flashCount, now)
    /\ interval' = CountdownEffect(isRunning, targetTimestamp, soundEnabled)
    /\ WakeLockEffectStep(mode, isRunning)
    /\ flash' = FlashEffect(flash, isCompleted, flashCount, now)
    /\ UNCHANGED <<flashCount, flashIntensity>>
    /\ lastOp' = "effects"
    /\ UNCHANGED <<now, mode, selectedPreset, totalSeconds, remainingSeconds,
                   isRunning, isCompleted, targetTimestamp, soundEnabled,
                   localStorage, notifyCalls, soundPlays, mounted, storageFull>>

\* A recovery that starts the countdown over.
LoadRemainingFromTotal(saved) == saved.totalSeconds

\* A recovery that rounds down.
LoadRemainingFloor(saved) == (saved.targetTimestamp - now) \div MsPerSecond

\* const remaining = Math.ceil((targetTimestamp - now) / 1000) (line 180).
LoadRemaining(saved) == MathCeilDiv(saved.targetTimestamp - now, MsPerSecond)

\* A test for a running timer that takes the deadline itself as still ahead.
LoadStillRunningInclusive(saved) ==
    Truthy(saved.targetTimestamp) /\ saved.targetTimestamp >= now

\* if (targetTimestamp && targetTimestamp > now) (line 178).
LoadStillRunning(saved) ==
    Truthy(saved.targetTimestamp) /\ saved.targetTimestamp > now

\* A test for an elapsed timer that misses the deadline itself.
LoadCompletedStrict(saved) ==
    Truthy(saved.targetTimestamp) /\ saved.targetTimestamp < now

\* else if (targetTimestamp && targetTimestamp <= now) (line 186).
LoadCompleted(saved) ==
    Truthy(saved.targetTimestamp) /\ saved.targetTimestamp <= now

\* A paused branch that forgets setRemainingSeconds: the initial value stays.
LoadPausedRemainingInitial(saved) == PRESETS[1]

\* setRemainingSeconds(totalSeconds) of the paused branch (line 197).
LoadPausedRemaining(saved) == saved.totalSeconds

\* The mount effect, lines 171-203, on a freshly constructed component
\* (lines 41-59): what it does not set keeps its initial value.
LoadEffect ==
    IF localStorage = NoItem \/ ~JSONparses(localStorage[1])
    THEN /\ selectedPreset' = 0
         /\ totalSeconds' = PRESETS[1]
         /\ remainingSeconds' = PRESETS[1]
         /\ isRunning' = FALSE
         /\ isCompleted' = FALSE
         /\ targetTimestamp' = Null
         /\ UNCHANGED localStorage
    ELSE LET saved == JSONparse(localStorage[1]) IN
         /\ selectedPreset' = saved.selectedPreset
         /\ totalSeconds' = saved.totalSeconds
         /\ IF LoadStillRunning(saved)
            THEN \* Timer is still running
                 /\ remainingSeconds' = LoadRemaining(saved)
                 /\ targetTimestamp' = saved.targetTimestamp
                 /\ isRunning' = TRUE
                 /\ isCompleted' = FALSE
                 /\ UNCHANGED localStorage
            ELSE IF LoadCompleted(saved)
            THEN \* Timer has completed
                 /\ remainingSeconds' = 0
                 /\ isCompleted' = TRUE
                 /\ isRunning' = FALSE
                 /\ targetTimestamp' = Null
                 /\ localStorage' = NoItem
            ELSE \* Timer was paused or not running
                 /\ remainingSeconds' = LoadPausedRemaining(saved)
                 /\ isRunning' = FALSE
                 /\ isCompleted' = FALSE
                 /\ targetTimestamp' = Null
                 /\ UNCHANGED localStorage

\* The page is reloaded: the component is constructed anew, its timers are
\* gone, localStorage stays, and the mount effect runs.
Reload ==
    /\ mode' = "clock"
    /\ soundEnabled' = FALSE
    /\ interval' = NoInterval
    /\ lastOp' = "load"
    /\ mounted' = TRUE
    /\ LoadEffect
    /\ wakeLock' = WakeLockOnMount(wakeLockApi)
    /\ flashCount' = 0
    /\ flashIntensity' = 0
    /\ flash' = FlashOnMount
    /\ UNCHANGED <<now, notifyCalls, soundPlays, storageFull, wakeLockApi>>

Next ==
    \/ Advance
    \/ \E m \in MODES : ModeClick(m)
    \/ SoundClick
    \/ \E index \in 0..(Len(PRESETS) - 1) : PresetClick(index)
    \/ StartPauseClick
    \/ ResetClick
    \/ Tick
    \/ FlushPassiveEffects
    \/ Reload

Spec == Init /\ [][Next]_vars

\* The store stops taking data (its quota is used up, or the browser denies
\* writes): from now on setItem throws.
StorageFills ==
    /\ ~storageFull
    /\ storageFull' = TRUE
    /\ lastOp' = "storageFills"
    /\ UNCHANGED <<now, mode, selectedPreset, totalSeconds, remainingSeconds,
                   isRunning, isCompleted, targetTimestamp, soundEnabled,
                   localStorage, interval, notifyCalls, soundPlays, mounted,
                   wakeLockApi, wakeLock, flashCount, flashIntensity, flash>>

\* The store takes data again.
StorageFrees ==
    /\ storageFull
    /\ storageFull' = FALSE
    /\ lastOp' = "storageFrees"
    /\ UNCHANGED <<now, mode, selectedPreset, totalSeconds, remainingSeconds,
                   isRunning, isCompleted, targetTimestamp, soundEnabled,
                   localStorage, interval, notifyCalls, soundPlays, mounted,
                   wakeLockApi, wakeLock, flashCount, flashIntensity, flash>>

\* The component with a store whose writes can fail.
NextWriteFails ==
    \/ Next
    \/ StorageFills
    \/ StorageFrees

SpecWriteFails == Init /\ [][NextWriteFails]_vars

\* A browser with the Screen Wake Lock API: the first page load, where the
\* wake lock effect finds mode = 'clock' and requests the lock.
InitWakeLock ==
    /\ now = StartNow
    /\ mode = "clock"
    /\ selectedPreset = 0
    /\ totalSeconds = PRESETS[1]
    /\ remainingSeconds = PRESETS[1]
    /\ isRunning = FALSE
    /\ isCompleted = FALSE
    /\ targetTimestamp = Null
    /\ soundEnabled = FALSE
    /\ localStorage = NoItem
    /\ interval = NoInterval
    /\ notifyCalls = 0
    /\ soundPlays = 0
    /\ lastOp = "load"
    /\ mounted = TRUE
    /\ storageFull = FALSE
    /\ wakeLockApi = TRUE
    /\ wakeLock = WakeLockOnMount(wakeLockApi)
    /\ flashCount = 0
    /\ flashIntensity = 0
    /\ flash = FlashOnMount

\* navigator.wakeLock.request('screen') resolves: the await of line 319
\* assigns the sentinel to the variable wakeLock of the effect instance that
\* made the request.  For an instance that is still current the variable is
\* the one its cleanup will read; for an instance that was cleaned up the
\* assignment comes after the cleanup has read null.
WakeLockRequestResolves ==
    /\ \/ /\ wakeLock.requested
          /\ wakeLock' = [wakeLock EXCEPT !.requested = FALSE, !.sentinel = TRUE]
       \/ /\ wakeLock.orphans > 0
          /\ wakeLock' = [wakeLock EXCEPT !.orphans = @ - 1, !.loose = @ + 1]
    /\ lastOp' = "wakeLockResolves"
    /\ UNCHANGED <<now, mode, selectedPreset, totalSeconds, remainingSeconds,
                   isRunning, isCompleted, targetTimestamp, soundEnabled,
                   localStorage, interval, notifyCalls, soundPlays, mounted,
                   storageFull, wakeLockApi, flashCount, flashIntensity, flash>>

\* The component in a browser with the Screen Wake Lock API.
NextWakeLock ==
    \/ Next
    \/ WakeLockRequestResolves

SpecWakeLock == InitWakeLock /\ [][NextWakeLock]_vars

\* A page load that finds a fragment whose deadline has passed: the state
\* the mount effect leaves (lines 186-192, with the first preset), before the
\* effects of its render have run.
InitFlash ==
    /\ now = StartNow
    /\ mode = "clock"
    /\ selectedPreset = 0
    /\ totalSeconds = PRESETS[1]
    /\ remainingSeconds = 0
    /\ isRunning = FALSE
    /\ isCompleted = TRUE
    /\ targetTimestamp = Null
    /\ soundEnabled = FALSE
    /\ localStorage = NoItem
    /\ interval = NoInterval
    /\ notifyCalls = 0
    /\ soundPlays = 0
    /\ lastOp = "load"
    /\ mounted = TRUE
    /\ storageFull = FALSE
    /\ wakeLockApi = FALSE
    /\ wakeLock = WakeLockOnMount(wakeLockApi)
    /\ flashCount = 0
    /\ flashIntensity = 0
    /\ flash = FlashOnMount

\* The browser delivers the animation frame the flash effect asked for: the
\* callback animate (lines 370-387) of the current instance of the effect (a
\* frame asked for by an instance that is due for cleanup is cancelled, line
\* 393, before it is delivered).  flashCount in the test of line 381 is the
\* one the instance closes over.
AnimationFrame ==
    /\ mounted
    /\ flash.scheduled
    /\ <<flash.isCompleted, flash.flashCount>> = <<isCompleted, flashCount>>
    /\ lastOp' = "animationFrame"
    /\ LET elapsed == now - flash.startTime IN
       IF elapsed < MsPerSecond
       THEN /\ flashIntensity' = FlashIntensityAt(elapsed)
            /\ UNCHANGED <<flashCount, flash>>
       ELSE /\ flashCount' = flashCount + 1
            /\ IF flash.flashCount < FlashLastCycle
               THEN /\ flashIntensity' = FlashIntensityAt(elapsed)
                    /\ flash' = [flash EXCEPT !.startTime = now]
               ELSE /\ flashIntensity' = 0
                    /\ flash' = [flash EXCEPT !.startTime = now, !.scheduled = FALSE]
    /\ UNCHANGED <<now, mode, selectedPreset, totalSeconds, remainingSeconds,
                   isRunning, isCompleted, targetTimestamp, soundEnabled,
                   localStorage, interval, notifyCalls, soundPlays, mounted,
                   storageFull, wakeLockApi, wakeLock>>

\* The component on a page that is shown, so that animation frames come.
NextFlash ==
    \/ Next
    \/ AnimationFrame

SpecFlash == InitFlash /\ [][NextFlash]_vars

\* The component with its scheduling: the clock advances, the callback of a
\* registered interval runs again (setInterval, line 286) and React runs the
\* effects of a render.
SpecFair ==
    /\ Init
    /\ [][Next]_vars
    /\ WF_vars(Advance)
    /\ WF_vars(Tick)
    /\ WF_vars(FlushPassiveEffects)

\* ---------------------------------------------------------- type invariant
TypeOK ==
    /\ now \in StartNow..(StartNow + Horizon)
    /\ mode \in MODES
    /\ selectedPreset \in 0..(Len(PRESETS) - 1)
    /\ totalSeconds \in Nat
    /\ remainingSeconds \in Nat
    /\ isRunning \in BOOLEAN
    /\ isCompleted \in BOOLEAN
    /\ targetTimestamp \in Nat \cup {Null}
    /\ soundEnabled \in BOOLEAN
    /\ notifyCalls \in 0..MaxNotify
    /\ soundPlays \in 0..notifyCalls
    /\ mounted \in BOOLEAN
    /\ storageFull \in BOOLEAN
    /\ wakeLockApi \in BOOLEAN
    /\ wakeLock \in [mode : MODES, isRunning : BOOLEAN, requested : BOOLEAN,
                     sentinel : BOOLEAN, orphans : 0..MaxOrphans,
                     loose : 0..MaxOrphans]
    /\ flashCount \in 0..FlashCountLimit
    /\ flashIntensity \in {0, 1}
    /\ flash \in [isCompleted : BOOLEAN, flashCount : 0..FlashCountLimit,
                  scheduled : BOOLEAN,
                  startTime : (StartNow..(StartNow + Horizon)) \cup {Null}]

\* ------------------------------------------------------------------ claims
Max(a, b) == IF a >= b THEN a ELSE b

\* The fragment stored under the key, when there is one.
stored == JSONparse(localStorage[1])

\* The key holds a fragment JSON.parse accepts.
hasFragment == localStorage # NoItem /\ JSONparses(localStorage[1])

\* The session looks IDLE: not running, not completed, the full duration left.
\* (PAUSED is the same with less than the full duration left.)
isIdle == ~isRunning /\ ~isCompleted /\ remainingSeconds = totalSeconds

\* C1: in every reachable state the session is RUNNING (isRunning) if and
\* only if a deadline is set (targetTimestamp is not null).
C1_RunningIffDeadline == isRunning <=> targetTimestamp # Null

\* C1 witness: a running session with its deadline, after a tick.
C1_Witness == isRunning /\ targetTimestamp # Null /\ lastOp = "tick"

\* C2: in every reachable state 0 <= remainingSeconds <= totalSeconds.
C2_RemainingInRange == 0 <= remainingSeconds /\ remainingSeconds <= totalSeconds

\* C2 witness: a session recovered by a reload in the middle of its countdown.
C2_Witness ==
    /\ lastOp = "load"
    /\ isRunning
    /\ 0 < remainingSeconds
    /\ remainingSeconds < totalSeconds

\* C3: a preset selection requested while the session is RUNNING changes
\* nothing: preset, total, remaining, status, deadline and slot stay.
C3_SelectWhileRunningIsNoOp ==
    [][(lastOp' = "presetClick" /\ isRunning) => UNCHANGED session]_vars

\* C3 witness: a preset button was clicked on a running session.
C3_Witness == lastOp = "presetClick" /\ isRunning /\ targetTimestamp # Null

\* C4: start from IDLE or PAUSED at time now with remainingSeconds = R sets
\* the deadline to now + R (R seconds in milliseconds), sets RUNNING and
\* stores {deadline, selectedPreset, totalSeconds} with that deadline; R is
\* the remaining value of the paused session, not totalSeconds.
C4_StartSetsDeadline ==
    [][(lastOp' = "startPauseClick" /\ ~isRunning /\ ~isCompleted) =>
        /\ targetTimestamp' = now + remainingSeconds * MsPerSecond
        /\ isRunning' /\ ~isCompleted'
        /\ remainingSeconds' = remainingSeconds
        /\ localStorage' # NoItem
        /\ JSONparses(localStorage'[1])
        /\ JSONparse(localStorage'[1]) =
             [targetTimestamp |-> targetTimestamp',
              selectedPreset |-> selectedPreset,
              totalSeconds |-> totalSeconds]]_vars

\* C4 witness: a session resumed after a pause, with less than the total left.
C4_Witness ==
    /\ lastOp = "startPauseClick"
    /\ isRunning
    /\ remainingSeconds < totalSeconds
    /\ targetTimestamp = now + remainingSeconds * MsPerSecond
    /\ localStorage # NoItem
    /\ stored.targetTimestamp = targetTimestamp

\* C5: pause from RUNNING at time now sets remainingSeconds to
\* max(0, ceil(deadline - now)) whatever the time of the last tick, clears
\* the deadline and sets PAUSED.
C5_PauseRecomputesRemaining ==
    [][(lastOp' = "startPauseClick" /\ isRunning) =>
        /\ remainingSeconds' =
             Max(0, MathCeilDiv(targetTimestamp - now, MsPerSecond))
        /\ targetTimestamp' = Null
        /\ ~isRunning' /\ ~isCompleted']_vars

\* C6: a tick on a RUNNING session at now >= deadline sets remainingSeconds
\* to 0, sets COMPLETED, clears the deadline, removes the slot and calls the
\* completion notification.
C6_TickAtDeadlineCompletes ==
    [][(lastOp' = "tick" /\ isRunning /\ now >= targetTimestamp) =>
        /\ remainingSeconds' = 0
        /\ isCompleted' /\ ~isRunning'
        /\ targetTimestamp' = Null
        /\ localStorage' = NoItem
        /\ notifyCalls' = notifyCalls + 1]_vars

\* C6 witness: the tick that completed the session exactly at its deadline.
C6_Witness ==
    /\ lastOp = "tick"
    /\ isCompleted
    /\ remainingSeconds = 0
    /\ notifyCalls = 1
    /\ interval.active /\ interval.targetTimestamp = now

\* C7: a tick on a RUNNING session at now < deadline sets remainingSeconds to
\* ceil(deadline - now), a function of the deadline and the time only, and
\* leaves status, deadline and slot as they are.
C7_TickBeforeDeadline ==
    [][(lastOp' = "tick" /\ isRunning /\ now < targetTimestamp) =>
        /\ remainingSeconds' = MathCeilDiv(targetTimestamp - now, MsPerSecond)
        /\ UNCHANGED <<isRunning, isCompleted, targetTimestamp, localStorage,
                       notifyCalls>>]_vars

\* C7 witness: a tick left one second on the clock, half a second before the
\* deadline.
C7_Witness ==
    /\ lastOp = "tick"
    /\ isRunning
    /\ remainingSeconds = 1
    /\ targetTimestamp - now < MsPerSecond

\* C8: while the session stays RUNNING, a tick never raises remainingSeconds.
C8_TicksNonIncreasing ==
    [][(lastOp' = "tick" /\ isRunning /\ isRunning') =>
        remainingSeconds' <= remainingSeconds]_vars

\* C8 witness: a tick on a running session that is two seconds or more into
\* its countdown.
C8_Witness ==
    /\ lastOp = "tick"
    /\ isRunning
    /\ remainingSeconds + 2 <= totalSeconds

\* C9: once the session is COMPLETED, a further tick, the callback of an
\* interval not yet cancelled included, does not call the notification again
\* and leaves remainingSeconds = 0 and the status COMPLETED.
C9_CompletionNotifiesOnce ==
    [][(lastOp' = "tick" /\ isCompleted) =>
        /\ notifyCalls' = notifyCalls
        /\ remainingSeconds' = 0
        /\ isCompleted' /\ ~isRunning']_vars

\* C10: a reload on a stored fragment whose deadline is later than now gives
\* RUNNING, the same deadline, remainingSeconds = ceil(deadline - now) and the
\* fragment's preset and total, and leaves the slot in place.
C10_RecoverRunning ==
    [][(lastOp' = "load" /\ hasFragment /\ stored.targetTimestamp > now) =>
        /\ isRunning' /\ ~isCompleted'
        /\ targetTimestamp' = stored.targetTimestamp
        /\ remainingSeconds' = MathCeilDiv(stored.targetTimestamp - now, MsPerSecond)
        /\ selectedPreset' = stored.selectedPreset
        /\ totalSeconds' = stored.totalSeconds
        /\ localStorage' = localStorage]_vars

\* C10 witness: a reload brought back a running session of a preset that is
\* not the default, part of a second into its countdown.
C10_Witness ==
    /\ lastOp = "load"
    /\ isRunning
    /\ selectedPreset # 0
    /\ localStorage # NoItem
    /\ stored.targetTimestamp = targetTimestamp
    /\ (targetTimestamp - now) % MsPerSecond # 0

\* C11: a reload on a stored fragment whose deadline is present and <= now
\* gives COMPLETED with remainingSeconds = 0, removes the slot and does not
\* call the completion notification; no interval is left or created that
\* could call it later.
C11_RecoverElapsed ==
    [][(lastOp' = "load" /\ hasFragment /\ stored.targetTimestamp # Null
          /\ stored.targetTimestamp <= now) =>
        /\ isCompleted' /\ ~isRunning'
        /\ remainingSeconds' = 0
        /\ targetTimestamp' = Null
        /\ localStorage' = NoItem
        /\ notifyCalls' = notifyCalls /\ soundPlays' = soundPlays
        /\ ~interval'.active
        /\ ~CountdownEffect(isRunning', targetTimestamp', soundEnabled').active]_vars

\* C11 witness: a reload found the session elapsed; nothing was notified.
C11_Witness ==
    /\ lastOp = "load"
    /\ isCompleted
    /\ remainingSeconds = 0
    /\ localStorage = NoItem
    /\ notifyCalls = 0

\* C12: a reload on a stored fragment without a deadline restores the
\* fragment's preset and total and gives IDLE with remainingSeconds =
\* totalSeconds, whatever was left when the session was paused.
C12_RecoverPaused ==
    [][(lastOp' = "load" /\ hasFragment /\ stored.targetTimestamp = Null) =>
        /\ selectedPreset' = stored.selectedPreset
        /\ totalSeconds' = stored.totalSeconds
        /\ remainingSeconds' = stored.totalSeconds
        /\ ~isRunning' /\ ~isCompleted'
        /\ targetTimestamp' = Null
        /\ localStorage' = localStorage]_vars

\* C12 witness: a reload brought a paused session of a preset other than the
\* default back as IDLE with the full duration.
C12_Witness ==
    /\ lastOp = "load"
    /\ hasFragment
    /\ stored.targetTimestamp = Null
    /\ selectedPreset # 0
    /\ isIdle

\* C13: a reload on a slot that fails to parse starts the session as if the
\* slot were absent (first preset, IDLE, no deadline) and removes the slot.
C13_MalformedStartsFreshAndClears ==
    [][(lastOp' = "load" /\ localStorage # NoItem /\ ~JSONparses(localStorage[1])) =>
        /\ selectedPreset' = 0
        /\ totalSeconds' = PRESETS[1]
        /\ remainingSeconds' = PRESETS[1]
        /\ ~isRunning' /\ ~isCompleted'
        /\ targetTimestamp' = Null
        /\ localStorage' = NoItem]_vars

\* C14: a reload preserves the session in the RUNNING and IDLE cases: a
\* RUNNING session comes back RUNNING with remainingSeconds = ceil(deadline -
\* now), an IDLE session comes back IDLE with the same preset, total and
\* remaining.
C14_ReloadPreservesSession ==
    [][(lastOp' = "load") =>
        /\ (isRunning /\ now < targetTimestamp) =>
              /\ isRunning' /\ ~isCompleted'
              /\ targetTimestamp' = targetTimestamp
              /\ remainingSeconds' = MathCeilDiv(targetTimestamp - now, MsPerSecond)
        /\ isIdle =>
              /\ ~isRunning' /\ ~isCompleted'
              /\ selectedPreset' = selectedPreset
              /\ totalSeconds' = totalSeconds
              /\ remainingSeconds' = remainingSeconds]_vars

\* C15: a preset selection from IDLE, PAUSED or COMPLETED (on a slot that is
\* absent or was written by the component) sets the preset, total =
\* remaining = the preset's duration and IDLE, leaves no deadline and clears
\* the slot.
C15_SelectPresetClearsSlot ==
    [][(lastOp' = "presetClick" /\ ~isRunning
          /\ (localStorage = NoItem \/ hasFragment)) =>
        /\ totalSeconds' = PRESETS[selectedPreset' + 1]
        /\ remainingSeconds' = totalSeconds'
        /\ ~isRunning' /\ ~isCompleted'
        /\ targetTimestamp' = Null
        /\ localStorage' = NoItem]_vars

\* What handleReset leaves: the full duration, IDLE, no deadline, no slot,
\* preset and total as they were.
ResetPost ==
    /\ remainingSeconds' = totalSeconds
    /\ ~isRunning' /\ ~isCompleted'
    /\ targetTimestamp' = Null
    /\ localStorage' = NoItem
    /\ UNCHANGED <<selectedPreset, totalSeconds>>

C18_ModeSwitchKeepsSession ==
    [][/\ (lastOp' = "modeClick") =>
            /\ UNCHANGED session
            /\ (isRunning /\ interval.active) => interval' = interval
       /\ (lastOp' = "tick" /\ mode = "clock" /\ isRunning /\ now >= targetTimestamp) =>
            /\ isCompleted' /\ ~isRunning'
            /\ remainingSeconds' = 0]_vars

\* C18 witness: the mode was switched to clock on a running session, whose
\* interval is still registered.
C18_Witness ==
    /\ lastOp = "modeClick"
    /\ mode = "clock"
    /\ isRunning
    /\ interval.active
    /\ interval.targetTimestamp = targetTimestamp

\* C19: in every reachable state remainingSeconds = 0 implies COMPLETED (an
\* IDLE session has its total, which is positive, left): no PAUSED and no
\* RUNNING session has remainingSeconds = 0.
C19_ZeroOnlyWhenCompleted ==
    remainingSeconds = 0 => (isCompleted /\ ~isRunning)

\* C19 witness: a reload restored a RUNNING session less than a second before
\* its deadline, with one second left.
C19_Witness ==
    /\ lastOp = "load"
    /\ isRunning
    /\ targetTimestamp - now < MsPerSecond
    /\ remainingSeconds = 1

\* C20 (under SpecWriteFails): when the write to the store fails during a
\* start or a pause, the session still makes the transition: the component
\* stays, the status toggles, a start sets the deadline and registers the
\* interval whose ticks count down, a pause clears the deadline.
C20_WriteFailureKeepsTimer ==
    [][(lastOp' = "startPauseClick" /\ storageFull /\ ~isCompleted) =>
        /\ mounted'
        /\ isRunning' = ~isRunning
        /\ ~isRunning =>
              /\ targetTimestamp' = now + remainingSeconds * MsPerSecond
              /\ interval'.active
        /\ isRunning => targetTimestamp' = Null]_vars

\* C21: once the session has left RUNNING through pause, reset or completion,
\* the callback of an interval registered while it was RUNNING changes neither
\* remainingSeconds nor the status, the deadline or the slot: after a pause or
\* a reset no such interval is left, the interval of a RUNNING session is the
\* one of its current deadline, and a callback that still runs after the
\* completion finds everything as it sets it.
C21_StaleTickChangesNothing ==
    [][/\ (lastOp' = "tick" /\ ~isRunning) =>
            UNCHANGED <<remainingSeconds, isRunning, isCompleted, targetTimestamp,
                        localStorage>>
       /\ (lastOp' \in {"startPauseClick", "resetClick"} /\ ~isRunning') =>
            ~interval'.active
       /\ (lastOp' = "tick" /\ isRunning) =>
            interval.targetTimestamp = targetTimestamp]_vars

\* C21 witness: the callback of the interval ran again after the completion,
\* before the interval was cleared.
C21_Witness ==
    /\ lastOp = "tick"
    /\ isCompleted
    /\ interval.active
    /\ notifyCalls >= 2

\* The screen wake locks the page holds: the sentinel of the current instance
\* of the wake lock effect and those no instance refers to.
heldWakeLocks == (IF wakeLock.sentinel THEN 1 ELSE 0) + wakeLock.loose

\* The wake lock effect has run on the current mode and isRunning.
wakeLockEffectRan == <<wakeLock.mode, wakeLock.isRunning>> = <<mode, isRunning>>

\* C22 (under SpecWakeLock): at most one wake lock is held at a time; once
\* the wake lock effect has run on the current state, no lock is held unless
\* the session is RUNNING or the mode is clock, a lock whose request resolved
\* after that condition became false included, and when the condition holds
\* and the request has resolved the lock is held.
C22_WakeLockFollowsCondition ==
    /\ heldWakeLocks <= 1
    /\ (wakeLockEffectRan /\ ~shouldKeepAwake(mode, isRunning)) => heldWakeLocks = 0
    /\ (wakeLockEffectRan /\ shouldKeepAwake(mode, isRunning) /\ ~wakeLock.requested)
          => wakeLock.sentinel

\* C23: whenever the slot holds a fragment, the fragment agrees with the
\* session: its selectedPreset and totalSeconds are the session's, and its
\* targetTimestamp is the session's deadline (null when there is none).
C23_SlotAgreesWithSession ==
    hasFragment =>
        stored = [targetTimestamp |-> targetTimestamp,
                  selectedPreset |-> selectedPreset,
                  totalSeconds |-> totalSeconds]

\* C25 (under SpecFlash): the flash of a COMPLETED session ends after 5
\* cycles: flashCount is incremented 5 times and no more, and when it is 5
\* and the flash effect has run on it, no animation frame is asked for and
\* the intensity is 0; a reset or a preset selection sets flashCount and
\* the intensity to 0.
C25_FlashEndsAfterFiveCycles ==
    [][/\ flashCount' <= FlashLastCycle + 1
       /\ (flashCount' = FlashLastCycle + 1 /\ flash'.flashCount = flashCount') =>
            (~flash'.scheduled /\ flashIntensity' = 0)
       /\ (isCompleted /\ lastOp' \in {"resetClick", "startPauseClick", "presetClick"}) =>
            (flashCount' = 0 /\ flashIntensity' = 0 /\ ~flash'.scheduled)]_vars

\* C24: within a page's life (a reload constructs a new session) a COMPLETED
\* session has remainingSeconds = 0 and stays COMPLETED with it under ticks,
\* mode switches, the passage of time and every step other than a reset (by
\* the reset button or the start/pause button) or a preset selection; these
\* leave it IDLE with remainingSeconds = totalSeconds and no deadline.
C24_CompletedUntilResetOrSelect ==
    [][(isCompleted /\ lastOp' # "load") =>
        /\ remainingSeconds = 0 /\ ~isRunning
        /\ IF lastOp' \in {"resetClick", "startPauseClick", "presetClick"}
           THEN /\ ~isCompleted' /\ ~isRunning'
                /\ remainingSeconds' = totalSeconds'
                /\ targetTimestamp' = Null
           ELSE /\ isCompleted' /\ ~isRunning'
                /\ remainingSeconds' = 0]_vars

\* C24 witness: a COMPLETED session after a switch to clock mode and the
\* passage of time, still COMPLETED with nothing left.
C24_Witness ==
    /\ lastOp = "advance"
    /\ mode = "clock"
    /\ isCompleted
    /\ remainingSeconds = 0
    /\ notifyCalls = 1
    /\ ~interval.active

\* C26: in every reachable state selectedPreset is an index of PRESETS and
\* totalSeconds is the duration of the preset at that index, also after a
\* reload restored them from a fragment the component wrote.
C26_TotalIsPresetDuration ==
    /\ selectedPreset \in 0..(Len(PRESETS) - 1)
    /\ totalSeconds = PRESETS[selectedPreset + 1]

\* C26 witness: a reload restored a preset other than the first from a
\* fragment, which is still stored.
C26_Witness ==
    /\ lastOp = "load"
    /\ hasFragment
    /\ stored.selectedPreset = 2
    /\ selectedPreset = 2
    /\ totalSeconds = 15 * 60

\* C27: in every reachable state isRunning and isCompleted are not both
\* true, so the status is exactly one of IDLE, RUNNING, PAUSED, COMPLETED.
C27_NotRunningAndCompleted == ~(isRunning /\ isCompleted)

\* C27 witness: a session completed, was reset and is running again.
C27_Witness ==
    /\ isRunning
    /\ ~isCompleted
    /\ notifyCalls >= 1
    /\ lastOp = "startPauseClick"

\* C28: a session never completes early.  A step into COMPLETED is a tick on
\* a RUNNING session at now >= its deadline, or a reload on a fragment whose
\* deadline is <= now; and every call of the notification is made by the
\* callback of an interval at now >= the deadline it was registered for,
\* which is the session's deadline while the session is RUNNING.
C28_NeverCompletesEarly ==
    [][/\ (~isCompleted /\ isCompleted') =>
            IF lastOp' = "tick"
            THEN isRunning /\ targetTimestamp # Null /\ now >= targetTimestamp
            ELSE /\ lastOp' = "load"
                 /\ hasFragment
                 /\ stored.targetTimestamp # Null
                 /\ now >= stored.targetTimestamp
       /\ (notifyCalls' # notifyCalls) =>
            /\ lastOp' = "tick"
            /\ interval.targetTimestamp # Null
            /\ now >= interval.targetTimestamp
            /\ isRunning => interval.targetTimestamp = targetTimestamp]_vars

\* C28 witness: a tick completed the session half a second after its deadline.
C28_Witness ==
    /\ lastOp = "tick"
    /\ isCompleted
    /\ notifyCalls = 1
    /\ now = interval.targetTimestamp + TimeStep

\* The last value of the clock that is observed.
lastNow == StartNow + (Horizon \div TimeStep) * TimeStep

\* C29 (under SpecFair): a RUNNING session whose deadline lies within the
\* time followed becomes COMPLETED with remainingSeconds = 0, unless it is
\* paused or reset first (it is then neither RUNNING nor COMPLETED), however
\* many ticks are skipped and whether or not the page is reloaded meanwhile.
C29_RunningEventuallyCompletes ==
    (isRunning /\ targetTimestamp <= lastNow)
        ~> \/ isCompleted /\ remainingSeconds = 0
           \/ ~isRunning /\ ~isCompleted

\* C29 witness: the first tick after two seconds without one found the
\* deadline passed and completed the session.
C29_Witness ==
    /\ lastOp = "tick"
    /\ isCompleted
    /\ remainingSeconds = 0
    /\ interval.active
    /\ now >= interval.targetTimestamp + 2 * MsPerSecond

\* C30: recovery agrees with tick.  On a RUNNING session whose interval and
\* stored fragment carry the same deadline, a reload at time now leaves what
\* the interval's callback at time now leaves: COMPLETED with
\* remainingSeconds = 0 and no slot if the callback's test (remaining <= 0)
\* holds, the deadline = now included, else RUNNING with the callback's
\* remaining value and the slot in place; the callback calls the
\* notification when it completes, the reload never does.
C30_RecoveryAgreesWithTick ==
    [][(/\ lastOp' \in {"load", "tick"}
        /\ isRunning
        /\ interval.active
        /\ hasFragment
        /\ interval.targetTimestamp = stored.targetTimestamp) =>
        /\ isCompleted' = TickCompletes
        /\ isRunning' = ~TickCompletes
        /\ remainingSeconds' = (IF TickCompletes THEN 0 ELSE TickRemaining)
        /\ (localStorage' = NoItem) = TickCompletes
        /\ ~TickCompletes => localStorage' = localStorage
        /\ notifyCalls' = (IF lastOp' = "tick" /\ TickCompletes
                           THEN notifyCalls + 1 ELSE notifyCalls)]_vars

\* C30 witness: a reload at the deadline itself (the earliest deadline there
\* is: the first preset started at the first instant) found the session
\* COMPLETED, without a notification.
C30_Witness ==
    /\ lastOp = "load"
    /\ now = StartNow + PRESETS[1] * MsPerSecond
    /\ isCompleted
    /\ remainingSeconds = 0
    /\ localStorage = NoItem
    /\ notifyCalls = 0

====
